---- MODULE Spec2Model ----
(***************************************************************************)
(* Verification model of the two screeners of the repository:              *)
(*   consecutive_sun_filter.py  (is_consecutive_sun_model, process_stock,  *)
(*                               main)                                     *)
(*   duck_hunter.py             (analyze_logic, main)                      *)
(*                                                                         *)
(* Python positions are 0-based, TLA+ sequences are 1-based: the row       *)
(* iloc[k] of a frame d is d[k + 1], the row iloc[-k] is d[Len(d) - k + 1].*)
(* Prices and volumes are integers; a product with a decimal literal is    *)
(* compared after scaling both sides (x > y * 1.8  is  10 * x > 18 * y).   *)
(***************************************************************************)
EXTENDS Integers, Sequences, FiniteSets, TLC

VARIABLES df, csv, pc, ret, frame, script, files, status, results

vars == <<df, csv, pc, ret, frame, script, files, status, results>>

(***************************************************************************)
(* consecutive_sun_filter.py                                               *)
(***************************************************************************)

\* len(df) < 15 is rejected
MinBars == 15
\* df.tail(10)
WindowLen == 10
\* 5.0 <= last_price <= 20.0
PriceLo == 5
PriceHi == 20
\* 1 <= dist_from_now <= 4
DistLo == 1
DistHi == 4

\* df.tail(k): the last k rows (all rows when the frame is shorter)
tail(d, k) == IF Len(d) <= k THEN d ELSE SubSeq(d, Len(d) - k + 1, Len(d))

\* d.iloc[a : -1] with a >= 0: rows a .. len-2 (0-based), empty when a > len-2
iloc_to_last(d, a) == SubSeq(d, a + 1, Len(d) - 1)

\* column of a frame as an array
column(d, name) == [i \in 1..Len(d) |-> d[i][name]]

RECURSIVE argmax_scan_last(_, _, _)
argmax_scan_last(s, i, best) ==
    IF i > Len(s) THEN best
    ELSE argmax_scan_last(s, i + 1, IF s[i] >= s[best] THEN i ELSE best)

RECURSIVE argmax_scan(_, _, _)
\* numpy argmax: a left-to-right scan that replaces the candidate only by a
\* strictly greater value, so the first occurrence of the maximum wins
argmax_scan(s, i, best) ==
    IF i > Len(s) THEN best
    ELSE argmax_scan(s, i + 1, IF s[i] > s[best] THEN i ELSE best)

\* Series.argmax(): 0-based position of the maximum
argmax(s) == argmax_scan(s, 2, 1) - 1

RECURSIVE seq_min(_)
seq_min(s) ==
    IF Len(s) = 1 THEN s[1]
    ELSE LET m == seq_min(Tail(s)) IN IF s[1] <= m THEN s[1] ELSE m

RECURSIVE seq_max(_)
seq_max(s) ==
    IF Len(s) = 1 THEN s[1]
    ELSE LET m == seq_max(Tail(s)) IN IF s[1] >= m THEN s[1] ELSE m

price_band_open(last_price) == PriceLo < last_price /\ last_price < PriceHi

\* line 30: 5.0 <= last_price <= 20.0
price_band(last_price) == PriceLo <= last_price /\ last_price <= PriceHi

\* line 48: 1 <= dist_from_now <= 4
dist_ok(dist_from_now) == DistLo <= dist_from_now /\ dist_from_now <= DistHi

\* line 60: min_wash_vol > max_vol * 0.5 rejects
wash_too_heavy(min_wash_vol, max_vol) == 2 * min_wash_vol > max_vol

\* line 68: today.volume > yesterday.volume * 1.8
vol_confirm(today, yesterday) == 10 * today.volume > 18 * yesterday.volume

\* line 66: today.close > today.open
is_today_sun(today) == today.close > today.open

\* line 69: today.close >= wash_zone.close.max()
price_break(today, wash_zone) == today.close >= seq_max(column(wash_zone, "close"))

\* The locals of is_consecutive_sun_model at its return; line is the source
\* line of the return statement taken, idx is -1 until max_vol_idx is set.
SunFrame(line, idx, dist, wash) ==
    [line |-> line, max_vol_idx |-> idx, dist_from_now |-> dist, wash_zone |-> wash]

is_consecutive_sun_model_frame(d) ==
    IF Len(d) < MinBars THEN [ret |-> FALSE, frame |-> SunFrame(26, -1, -1, <<>>)]
    ELSE
    LET last_price == d[Len(d)].close IN
    IF ~ price_band(last_price) THEN [ret |-> FALSE, frame |-> SunFrame(30, -1, -1, <<>>)]
    ELSE
    LET data == tail(d, WindowLen)
        closes == column(data, "close")
        opens == column(data, "open")
        lookback_data == iloc_to_last(data, 0)
        max_vol_idx == argmax(column(lookback_data, "volume"))
        max_vol == lookback_data[max_vol_idx + 1].volume
        dist_from_now == Len(lookback_data) - max_vol_idx
    IN
    IF ~ dist_ok(dist_from_now)
    THEN [ret |-> FALSE, frame |-> SunFrame(48, max_vol_idx, dist_from_now, <<>>)]
    ELSE IF closes[max_vol_idx + 1] <= opens[max_vol_idx + 1]
    THEN [ret |-> FALSE, frame |-> SunFrame(52, max_vol_idx, dist_from_now, <<>>)]
    ELSE
    LET wash_zone == iloc_to_last(data, max_vol_idx + 1) IN
    IF wash_zone = <<>>
    THEN [ret |-> FALSE, frame |-> SunFrame(56, max_vol_idx, dist_from_now, wash_zone)]
    ELSE
    LET min_wash_vol == seq_min(column(wash_zone, "volume")) IN
    IF wash_too_heavy(min_wash_vol, max_vol)
    THEN [ret |-> FALSE, frame |-> SunFrame(60, max_vol_idx, dist_from_now, wash_zone)]
    ELSE
    LET today == data[Len(data)]
        yesterday == data[Len(data) - 1]
    IN [ret |-> is_today_sun(today) /\ vol_confirm(today, yesterday)
                    /\ price_break(today, wash_zone),
        frame |-> SunFrame(71, max_vol_idx, dist_from_now, wash_zone)]

is_consecutive_sun_model(d) == is_consecutive_sun_model_frame(d).ret

(***************************************************************************)
(* Inputs of the pattern matcher                                           *)
(***************************************************************************)

\* longest series drawn
MaxSunLen == 16
\* volumes of the bars before today, and today's
VolVals == {1, 2, 5}
TodayVols == {2, 9}
\* volume of the bars older than the last five
FillerVols == {1, 2}
\* price level of a series: today's close is Base or Base + 1
Bases == {4, 20}

Bar(o, c, v) == [open |-> o, close |-> c, volume |-> v]

\* the four bars before today: opened at the base, closed at it or above it
NearBars(b) == {Bar(b, b + dc, v) : dc \in {0, 1}, v \in VolVals}

TodayBars(b) == {Bar(b - 1 + do, b + dc, v) : do \in {0, 1}, dc \in {0, 1}, v \in TodayVols}

SunSeries(n, b, fv, near, t) ==
    [i \in 1..n |->
        IF i = n THEN t
        ELSE IF i >= n - 4 THEN near[i - (n - 5)]
        ELSE Bar(b, b + 1, fv)]

SunInit ==
    /\ \E n \in (MinBars - 1)..MaxSunLen, b \in Bases, fv \in FillerVols :
         \E near \in [1..4 -> NearBars(b)], t \in TodayBars(b) :
             df = SunSeries(n, b, fv, near, t)
    /\ csv = <<>>
    /\ pc = "call"
    /\ ret = FALSE
    /\ frame = SunFrame(0, -1, -1, <<>>)
    /\ script = "none"
    /\ files = <<>>
    /\ status = <<>>
    /\ results = <<>>

\* one call of is_consecutive_sun_model(df)
CallSunModel ==
    /\ pc = "call"
    /\ LET r == is_consecutive_sun_model_frame(df) IN
        /\ ret' = r.ret
        /\ frame' = r.frame
    /\ pc' = "done"
    /\ UNCHANGED <<df, csv, script, files, status, results>>

SunNext == CallSunModel

SpecSun == SunInit /\ [][SunNext]_vars

(***************************************************************************)
(* Properties of is_consecutive_sun_model                                  *)
(***************************************************************************)

\* W[k] of the claims: bar k (0-based) of the last ten bars of d
W(d, k) == d[Len(d) - 10 + k + 1]

\* the earliest position among W[0..8] that carries the largest volume
PeakPos(d) ==
    CHOOSE i \in 0..8 :
        /\ \A j \in 0..8 : W(d, j).volume <= W(d, i).volume
        /\ \A j \in 0..(i - 1) : W(d, j).volume < W(d, i).volume

\* positions strictly between the peak and today
WashPos(d) == (PeakPos(d) + 1)..8

SunConditions(d) ==
    /\ Len(d) >= 15
    /\ 5 <= d[Len(d)].close /\ d[Len(d)].close <= 20
    /\ LET p == PeakPos(d) IN
        /\ 1 <= 9 - p /\ 9 - p <= 4
        /\ W(d, p).close > W(d, p).open
        /\ WashPos(d) # {}
        /\ \E k \in WashPos(d) : 2 * W(d, k).volume <= W(d, p).volume
        /\ W(d, 9).close > W(d, 9).open
        /\ 10 * W(d, 9).volume > 18 * W(d, 8).volume
        /\ \A k \in WashPos(d) : W(d, 9).close >= W(d, k).close

C3_PositionGuaranteesWashout ==
    (pc = "done" /\ frame.line \notin {26, 30} /\ dist_ok(frame.dist_from_now))
        => (WashPos(df) # {} /\ frame.line # 56)

\* C7: the peak the function works with is the earliest bar of W[0..8] with
\* the largest volume, and distance, bullish-peak check and washout zone are
\* those of that bar.
C7_EarliestPeak ==
    (pc = "done" /\ frame.line \notin {26, 30}) =>
        LET p == PeakPos(df) IN
        /\ frame.max_vol_idx = p
        /\ frame.dist_from_now = 9 - p
        /\ (frame.line = 52) <=>
              (1 <= 9 - p /\ 9 - p <= 4 /\ W(df, p).close <= W(df, p).open)
        /\ frame.line \in {56, 60, 71} =>
              frame.wash_zone = [k \in 1..(8 - p) |-> W(df, p + k)]

\* a match on a window in which a later bar repeats the peak volume
C7_Witness ==
    /\ pc = "done" /\ ret
    /\ \E j \in (frame.max_vol_idx + 1)..8 :
          W(df, j).volume = W(df, frame.max_vol_idx).volume

(***************************************************************************)
(* duck_hunter.py                                                          *)
(*                                                                         *)
(* A cell of the frame is a number n/d held as <<n, d>> in lowest terms    *)
(* with d > 0, or the absent value NaN.  Arithmetic on NaN gives NaN and   *)
(* every comparison with NaN is false, as for IEEE floats.                 *)
(***************************************************************************)

NaN == <<0, 0>>

isnan(x) == x[2] = 0

abs(n) == IF n < 0 THEN 0 - n ELSE n

RECURSIVE gcd(_, _)
gcd(a, b) == IF b = 0 THEN a ELSE gcd(b, a % b)

\* the number n/d (d > 0) in lowest terms
num(n, d) == LET g == gcd(abs(n), d) IN <<n \div g, d \div g>>

radd(a, b) ==
    IF isnan(a) \/ isnan(b) THEN NaN
    ELSE LET g == gcd(a[2], b[2]) IN
         num(a[1] * (b[2] \div g) + b[1] * (a[2] \div g), (a[2] \div g) * b[2])

rneg(a) == IF isnan(a) THEN NaN ELSE <<0 - a[1], a[2]>>

rsub(a, b) == radd(a, rneg(b))

rmul(a, b) ==
    IF isnan(a) \/ isnan(b) THEN NaN
    ELSE LET g1 == gcd(abs(a[1]), b[2])
             g2 == gcd(abs(b[1]), a[2])
         IN  <<(a[1] \div g1) * (b[1] \div g2), (a[2] \div g2) * (b[2] \div g1)>>

\* a / b for b > 0
rdiv(a, b) ==
    IF isnan(a) \/ isnan(b) \/ b[1] <= 0 THEN NaN
    ELSE rmul(a, <<b[2], b[1]>>)

rgt_absent_as_zero(a, b) ==
    LET x == IF isnan(a) THEN <<0, 1>> ELSE a
        y == IF isnan(b) THEN <<0, 1>> ELSE b
        g == gcd(x[2], y[2])
    IN x[1] * (y[2] \div g) > y[1] * (x[2] \div g)

\* a > b
rgt(a, b) ==
    /\ ~ isnan(a)
    /\ ~ isnan(b)
    /\ LET g == gcd(a[2], b[2]) IN a[1] * (b[2] \div g) > b[1] * (a[2] \div g)

\* a >= b
rge(a, b) ==
    /\ ~ isnan(a)
    /\ ~ isnan(b)
    /\ LET g == gcd(a[2], b[2]) IN a[1] * (b[2] \div g) >= b[1] * (a[2] \div g)

rlt(a, b) == rgt(b, a)

rle(a, b) == rge(b, a)

\* len(df) < 180 is rejected
MinHistory == 180
\* code.zfill(6)
CodeWidth == 6

\* d.iloc[-k]
iloc_neg(d, k) == d[Len(d) - k + 1]

\* d.iloc[-k:-1]: the rows from iloc[-k] up to, and without, the last one
iloc_neg_to_last(d, k) == SubSeq(d, Len(d) - k + 1, Len(d) - 1)

RECURSIVE window_sum(_, _, _)
\* sum of xs[a..b], added up by halves; NaN as soon as one of them is absent
window_sum(xs, a, b) ==
    IF a > b THEN <<0, 1>>
    ELSE IF a = b THEN xs[a]
    ELSE LET m == (a + b) \div 2 IN
         radd(window_sum(xs, a, m), window_sum(xs, m + 1, b))

\* Series.rolling(w).mean(): absent until w rows are there and wherever the
\* window holds an absent value
rolling_mean(xs, w) ==
    [i \in 1..Len(xs) |->
        IF i < w THEN NaN ELSE rdiv(window_sum(xs, i - w + 1, i), <<w, 1>>)]

\* pandas ewm(adjust=False).mean(), one turn of the loop over the rows:
\* weighted is the running average, old_wt the weight it carries.  A row
\* without value only decays old_wt; an average equal to the new value is
\* left untouched.
ewm_step(alpha, cur, st) ==
    LET weighted == st.weighted
        decayed == rmul(st.old_wt, rsub(<<1, 1>>, alpha))
        updated == rdiv(radd(rmul(decayed, weighted), rmul(alpha, cur)),
                        radd(decayed, alpha))
        w2 == IF isnan(weighted) THEN cur
              ELSE IF isnan(cur) \/ weighted = cur THEN weighted
              ELSE updated
        o2 == IF isnan(weighted) THEN st.old_wt
              ELSE IF isnan(cur) THEN decayed
              ELSE <<1, 1>>
    IN [weighted |-> w2, old_wt |-> o2, out |-> Append(st.out, w2)]

RECURSIVE ewm_scan(_, _, _, _, _)
\* the turns for the rows a..b in order, taken by halves
ewm_scan(vals, alpha, a, b, st) ==
    IF a > b THEN st
    ELSE IF a = b THEN ewm_step(alpha, vals[a], st)
    ELSE LET m == (a + b) \div 2
             left == ewm_scan(vals, alpha, a, m, st)
         IN  \* the test has the first half worked out before the second starts
             IF Len(left.out) = m THEN ewm_scan(vals, alpha, m + 1, b, left) ELSE left

\* Series.ewm(span=span, adjust=False).mean(), alpha = 2 / (span + 1)
ewm_mean(vals, span) ==
    IF vals = <<>> THEN <<>>
    ELSE ewm_scan(vals, num(2, span + 1), 2, Len(vals),
                  [weighted |-> vals[1], old_wt |-> <<1, 1>>, out |-> <<vals[1]>>]).out

RECURSIVE rseq_max(_)
\* Series.max(): the largest value present, NaN when none is
rseq_max(s) ==
    IF s = <<>> THEN NaN
    ELSE LET m == rseq_max(Tail(s)) IN
         IF isnan(s[1]) THEN m
         ELSE IF isnan(m) \/ rge(s[1], m) THEN s[1] ELSE m

RECURSIVE rseq_min(_)
\* Series.min(): the smallest value present, NaN when none is
rseq_min(s) ==
    IF s = <<>> THEN NaN
    ELSE LET m == rseq_min(Tail(s)) IN
         IF isnan(s[1]) THEN m
         ELSE IF isnan(m) \/ rle(s[1], m) THEN s[1] ELSE m

\* str.split('.')[0]: the characters before the first dot
RECURSIVE before_dot(_)
before_dot(str) ==
    IF str = <<>> \/ str[1] = "." THEN <<>>
    ELSE <<str[1]>> \o before_dot(Tail(str))

RECURSIVE zfill(_, _)
\* str.zfill(width): zeros on the left up to the width
zfill(str, width) == IF Len(str) >= width THEN str ELSE zfill(<<"0">> \o str, width)

startswith(str, prefix) ==
    Len(str) >= Len(prefix) /\ SubSeq(str, 1, Len(prefix)) = prefix

\* lines 29-32: only codes 60xxxx and 00xxxx go on
code_of(cell) == zfill(before_dot(cell), CodeWidth)

board_ok(code) == startswith(code, <<"6", "0">>) \/ startswith(code, <<"0", "0">>)

\* lines 58-59: exp1 - exp2, row by row
dif_of(exp1, exp2) == [i \in DOMAIN exp1 |-> rsub(exp1[i], exp2[i])]

\* line 61: (dif - dea) * 2, row by row
macd_of(dif, dea) == [i \in DOMAIN dif |-> rmul(rsub(dif[i], dea[i]), <<2, 1>>)]

\* lines 49-61: the columns added to the frame
columns(close, volume, dif, dea) ==
    [ma5 |-> rolling_mean(close, 5),
     ma10 |-> rolling_mean(close, 10),
     ma20 |-> rolling_mean(close, 20),
     ma60 |-> rolling_mean(close, 60),
     vol_ma5 |-> rolling_mean(volume, 5),
     vol_ma60 |-> rolling_mean(volume, 60),
     dif |-> dif,
     dea |-> dea,
     macd |-> macd_of(dif, dea)]

\* line 60: dea is the exponential average of dif
with_dea(close, volume, dif) == columns(close, volume, dif, ewm_mean(dif, 9))

\* lines 56-58: exp1 and exp2 are the exponential averages of the close
with_dif(close, volume) ==
    with_dea(close, volume, dif_of(ewm_mean(close, 12), ewm_mean(close, 26)))

\* lines 49-61: the indicator columns of the frame d
Indicators(d) == with_dif(column(d, "close"), column(d, "volume"))

\* the row i of the frame with its indicator values
full_row(d, ind, i) ==
    [close |-> d[i].close, high |-> d[i].high, volume |-> d[i].volume,
     pct_chg |-> d[i].pct_chg, turnover |-> d[i].turnover,
     ma5 |-> ind.ma5[i], ma10 |-> ind.ma10[i], ma60 |-> ind.ma60[i],
     vol_ma5 |-> ind.vol_ma5[i], vol_ma60 |-> ind.vol_ma60[i],
     dif |-> ind.dif[i], macd |-> ind.macd[i]]

\* line 38: 5.0 <= curr.close <= 28.0
duck_price_band(curr) == rle(<<5, 1>>, curr.close) /\ rle(curr.close, <<28, 1>>)

\* line 41: curr.pct_chg >= 3.0
cond_strong(curr) == rge(curr.pct_chg, <<3, 1>>)

\* line 43: curr.turnover > 3.0
cond_active(curr) == rgt(curr.turnover, <<3, 1>>)

\* line 70: curr.close > curr.ma5 > curr.ma10
cond_basic_trend(curr) == rgt(curr.close, curr.ma5) /\ rgt(curr.ma5, curr.ma10)

\* line 71: curr.ma5 > prev.ma5
cond_basic_slope(curr, prev) == rgt(curr.ma5, prev.ma5)

\* line 72
cond_basic_vol(curr) ==
    \/ rgt(curr.volume, rmul(curr.vol_ma5, <<6, 5>>))
    \/ (rge(curr.close, curr.ma10) /\ rle(curr.volume, curr.vol_ma5))

\* line 80: curr.ma60 > df.iloc[-5].ma60
cond_aa_trend(curr, back) == rgt(curr.ma60, back.ma60)

\* line 81: curr.macd > prev.macd
cond_aa_macd(curr, prev) == rgt(curr.macd, prev.macd)

\* line 87: recent_20.high.max() > curr.ma60 * 1.08
cond_aaa_head(curr, recent_20) ==
    rgt(rseq_max(column(recent_20, "high")), rmul(curr.ma60, <<27, 25>>))

\* line 88: recent_10.volume.min() < curr.vol_ma60 * 0.8
cond_aaa_nostril(curr, recent_10) ==
    rlt(rseq_min(column(recent_10, "volume")), rmul(curr.vol_ma60, <<4, 5>>))

\* line 89: curr.dif > 0
cond_aaa_water(curr) == rgt(curr.dif, <<0, 1>>)

\* the k of df.iloc[-k] whose ma60 the trend condition compares with
TrendBack == 5
\* the k of recent_10 = df.iloc[-k:-1] and of recent_20 = df.iloc[-k:-1]
Recent10From == 10
Recent20From == 20

recent_10_of(d) == iloc_neg_to_last(d, Recent10From)

recent_20_of(d) == iloc_neg_to_last(d, Recent20From)

level_without_aa(aa, aaa) == IF aa /\ aaa THEN "AAA" ELSE "A"

level_unnested(aa, aaa) == IF aaa THEN "AAA" ELSE IF aa THEN "AA" ELSE "A"

\* lines 77-92: the level once the A conditions hold; the AAA conditions
\* count only inside the AA branch
level_of(aa, aaa) == IF aa THEN (IF aaa THEN "AAA" ELSE "AA") ELSE "A"

Digit == <<"0", "1", "2", "3", "4", "5", "6", "7", "8", "9">>

RECURSIVE str_nat(_)
\* str(n) for a natural number
str_nat(n) == IF n < 10 THEN <<Digit[n + 1]>> ELSE str_nat(n \div 10) \o <<Digit[(n % 10) + 1]>>

\* str(x) for a float x >= 0 with at most one decimal: 9.5 is "9.5", 10.0 is "10.0"
str_float(x) ==
    LET tenths == (x[1] * 10) \div x[2] IN
    str_nat(tenths \div 10) \o <<".">> \o <<Digit[(tenths % 10) + 1]>>

\* f"{x}%"
percent_str(x) == str_float(x) \o <<"%">>

\* round(x, 2) for x >= 0, ties to the even hundredth
round2(x) ==
    IF isnan(x) THEN NaN
    ELSE LET q == (x[1] * 100) \div x[2]
             r == (x[1] * 100) % x[2]
             up == 2 * r > x[2] \/ (2 * r = x[2] /\ q % 2 = 1)
         IN num(IF up THEN q + 1 ELSE q, 100)

None == [level |-> "None"]

\* the conditions analyze_logic has evaluated at its return, FALSE for those
\* it did not reach; line is the source line of the return taken
DuckFrame(line, a, aa_trend, aa_macd, aaa) ==
    [line |-> line, cond_basic |-> a, cond_aa_trend |-> aa_trend,
     cond_aa_macd |-> aa_macd, cond_aaa |-> aaa]

\* lines 74-103: nothing when the A conditions fail, else the record with
\* its level
record_of(code, curr, a, aa_trend, aa_macd, aaa) ==
    IF ~ a THEN [ret |-> None, frame |-> DuckFrame(75, FALSE, FALSE, FALSE, FALSE)]
    ELSE [ret |-> [code |-> code,
                   level |-> level_of(aa_trend /\ aa_macd, aaa),
                   price |-> round2(curr.close),
                   pct_chg |-> percent_str(curr.pct_chg),
                   turnover |-> percent_str(curr.turnover),
                   vol_ratio |-> round2(rdiv(curr.volume, curr.vol_ma5))],
          frame |-> DuckFrame(94, a, aa_trend, aa_macd, aa_trend /\ aa_macd /\ aaa)]

\* lines 70-92: the conditions of the three levels on the rows picked
grade(code, curr, prev, back, recent_10, recent_20) ==
    record_of(code, curr,
              cond_basic_trend(curr) /\ cond_basic_slope(curr, prev) /\ cond_basic_vol(curr),
              cond_aa_trend(curr, back),
              cond_aa_macd(curr, prev),
              cond_aaa_head(curr, recent_20) /\ cond_aaa_nostril(curr, recent_10)
                  /\ cond_aaa_water(curr))

\* lines 63-65 and 80: curr, prev, df.iloc[-5], recent_10 and recent_20 of the
\* frame d with its indicator columns ind
pick_rows(d, code, ind) ==
    grade(code,
          full_row(d, ind, Len(d)),
          full_row(d, ind, Len(d) - 1),
          full_row(d, ind, Len(d) - TrendBack + 1),
          recent_10_of(d),
          recent_20_of(d))

\* lines 31-61: the board, price and activity filters on the last row, then
\* the indicators
filters(d, code, last) ==
    IF ~ board_ok(code) THEN [ret |-> None, frame |-> DuckFrame(32, FALSE, FALSE, FALSE, FALSE)]
    ELSE IF ~ duck_price_band(last)
    THEN [ret |-> None, frame |-> DuckFrame(38, FALSE, FALSE, FALSE, FALSE)]
    ELSE IF ~ (cond_strong(last) /\ cond_active(last))
    THEN [ret |-> None, frame |-> DuckFrame(46, FALSE, FALSE, FALSE, FALSE)]
    ELSE pick_rows(d, code, Indicators(d))

\* lines 19-103 on the frame d that read_csv returned
analyze_frame(d) ==
    IF Len(d) < MinHistory THEN [ret |-> None, frame |-> DuckFrame(19, FALSE, FALSE, FALSE, FALSE)]
    ELSE filters(d, code_of(iloc_neg(d, 1).code), iloc_neg(d, 1))


(***************************************************************************)
(* Input files of analyze_logic: a reference series that reaches level AAA and  *)
(* the series that differ from it in a few places.  The closes are flat    *)
(* except for the last two bars, so that the exponential averages stay     *)
(* exact in the integer range.                                             *)
(***************************************************************************)

\* longest series drawn
MaxDuckLen == 180
\* largest number of places in which a series differs from the reference
MaxEdits == 2

DuckLens == (MinHistory - 1)..MaxDuckLen
Codes == { <<"6", "0", "0", "5", "1", "9">>, <<"1", ".", "0">>, <<"3", "0", "0", "0", "5", "9">> }
PrevCloses == {10, 13}
CurrCloses == {4, 5, 10, 11, 12, 28, 29}
CurrVolumes == {10, 11, 20}
\* bars before the last one at which the one high bar sits (0: nowhere)
HeadOffsets == {0, 1, 19, 20, 21}
\* bars before the last one at which the one thin-volume bar sits (0: nowhere)
NostrilOffsets == {0, 1, 9, 10, 11}
\* bars before the last one at which the close is missing (-1: nowhere)
NanCloseOffsets == {-1, 3, 8, 59, 63, 64}
\* bars before the last one at which the volume is missing (-1: nowhere)
NanVolumeOffsets == {-1, 2, 30}
\* percent change and turnover of the last bar, in tenths of a percent
PctTenths == {29, 30, 95, 100}
TurnoverTenths == {30, 31}

RefParams ==
    [n |-> MinHistory, code |-> <<"6", "0", "0", "5", "1", "9">>, p |-> 10, q |-> 12,
     v |-> 20, head |-> 19, nostril |-> 9, nan_close |-> -1, nan_volume |-> -1,
     pct |-> 95, turnover |-> 31, malformed |-> FALSE]

Edits(P) == Cardinality({k \in DOMAIN RefParams : P[k] # RefParams[k]})

\* pd.read_csv on the file P describes: flat price 10 and volume 10; the
\* last two closes, the last volume, one high bar, one thin bar and the
\* missing cells as P says
read_csv(P) ==
    [i \in 1..P.n |->
        LET k == P.n - i
            c == IF k = 0 THEN P.q ELSE IF k = 1 THEN P.p ELSE 10
        IN [code |-> P.code,
            close |-> IF k = P.nan_close THEN NaN ELSE <<c, 1>>,
            high |-> IF k = P.head /\ k > 0 /\ c < 11 THEN <<11, 1>> ELSE <<c, 1>>,
            volume |-> IF k = P.nan_volume THEN NaN
                       ELSE IF k = 0 THEN <<P.v, 1>>
                       ELSE IF k = P.nostril THEN <<1, 1>> ELSE <<10, 1>>,
            pct_chg |-> IF k = 0 THEN num(P.pct, 10) ELSE <<0, 1>>,
            turnover |-> IF k = 0 THEN num(P.turnover, 10) ELSE <<1, 1>>]]

\* 1 when the value departs from the reference, else 0
Edit(k, x) == IF x = RefParams[k] THEN 0 ELSE 1

\* the files within MaxEdits of the reference; the count is taken along the
\* way so that a choice already too far is dropped at once
DuckInit ==
    /\ \E n \in DuckLens, code \in Codes, p \in PrevCloses, q \in CurrCloses :
       LET e1 == Edit("n", n) + Edit("code", code) + Edit("p", p) + Edit("q", q) IN
       /\ e1 <= MaxEdits
       /\ \E v \in CurrVolumes, head \in HeadOffsets, nostril \in NostrilOffsets :
          LET e2 == e1 + Edit("v", v) + Edit("head", head) + Edit("nostril", nostril) IN
          /\ e2 <= MaxEdits
          /\ \E nan_close \in NanCloseOffsets, nan_volume \in NanVolumeOffsets :
             LET e3 == e2 + Edit("nan_close", nan_close) + Edit("nan_volume", nan_volume) IN
             /\ e3 <= MaxEdits
             /\ \E pct \in PctTenths, turnover \in TurnoverTenths, malformed \in BOOLEAN :
                LET P == [n |-> n, code |-> code, p |-> p, q |-> q, v |-> v,
                          head |-> head, nostril |-> nostril, nan_close |-> nan_close,
                          nan_volume |-> nan_volume, pct |-> pct, turnover |-> turnover,
                          malformed |-> malformed]
                IN Edits(P) <= MaxEdits /\ csv = P
    /\ df = <<>>
    /\ pc = "call"
    /\ ret = None
    /\ frame = DuckFrame(0, FALSE, FALSE, FALSE, FALSE)
    /\ script = "none"
    /\ files = <<>>
    /\ status = <<>>
    /\ results = <<>>

\* the function came to a return statement
returned(r) == [raised |-> FALSE, ret |-> r.ret, frame |-> r.frame]

\* lines 16-103, the body of the try: read_csv raises on a malformed file,
\* otherwise the frame is worked on
analyze_logic_body(file) ==
    IF file.malformed
    THEN [raised |-> TRUE, ret |-> None, frame |-> DuckFrame(16, FALSE, FALSE, FALSE, FALSE)]
    ELSE returned(analyze_frame(read_csv(file)))

no_except(r) == r

\* lines 105-106: except Exception: return None
except_none(r) ==
    IF r.raised
    THEN [raised |-> FALSE, ret |-> None, frame |-> DuckFrame(106, FALSE, FALSE, FALSE, FALSE)]
    ELSE r

\* lines 14-106
analyze_logic_frame(file) == except_none(analyze_logic_body(file))

analyze_logic(file) == analyze_logic_frame(file).ret

\* the caller has the value returned; frame keeps what the call evaluated
Return(r) == ret' = r.ret /\ frame' = r.frame

\* one call of analyze_logic on the file
CallAnalyzeLogic ==
    /\ pc = "call"
    /\ Return(analyze_logic_frame(csv))
    /\ pc' = "done"
    /\ UNCHANGED <<df, csv, script, files, status, results>>

DuckNext == CallAnalyzeLogic

SpecDuck == DuckInit /\ [][DuckNext]_vars

(***************************************************************************)
(* Properties of analyze_logic                                             *)
(***************************************************************************)

\* the gates checked again on the last bar of d, each on its own; back5 is
\* the outcome of comparing curr.ma60 > (ma60 five bars before curr)
Gates(d) ==
    LET ind == Indicators(d)
        curr == full_row(d, ind, Len(d))
        prev == full_row(d, ind, Len(d) - 1)
        back == full_row(d, ind, Len(d) - (TrendBack - 1))
    IN [gate2 |-> /\ cond_basic_trend(curr)
                  /\ cond_basic_slope(curr, prev)
                  /\ cond_basic_vol(curr),
        gate3 |-> /\ cond_aa_trend(curr, back)
                  /\ cond_aa_macd(curr, prev),
        gate4 |-> /\ cond_aaa_head(curr, recent_20_of(d))
                  /\ cond_aaa_nostril(curr, recent_10_of(d))
                  /\ cond_aaa_water(curr),
        back5 |-> rgt(curr.ma60, ind.ma60[Len(d) - 5]),
        curr |-> curr,
        back |-> back]

\* analyze_logic got past the length, board, price and activity filters
PastGate1 == pc = "done" /\ frame.line \in {75, 94}

Workers == 2
\* most files in the data directory
MaxFiles == 3

\* consecutive_sun_filter.py lines 77-83, the body of the try
process_stock_body(file) ==
    IF file.malformed THEN [raised |-> TRUE, ret |-> None]
    ELSE IF file.rows = <<>> \/ Len(file.rows) < MinBars THEN [raised |-> FALSE, ret |-> None]
    ELSE IF is_consecutive_sun_model(file.rows)
         THEN [raised |-> FALSE, ret |-> [code |-> before_dot(file.name)]]
         ELSE [raised |-> FALSE, ret |-> None]

\* lines 77-86: a bare except returns None
bare_except(r) == IF r.raised THEN [raised |-> FALSE, ret |-> None] ELSE r

process_stock_try(file) == bare_except(process_stock_body(file))

\* lines 73-86: codes 30xxxx are left out before anything is read
process_stock(file) ==
    IF startswith(before_dot(file.name), <<"3", "0">>) THEN [raised |-> FALSE, ret |-> None]
    ELSE process_stock_try(file)

\* what a task hands back to main: the value returned or the exception
outcome(r) == [raised |-> r.raised, ret |-> r.ret]

\* what one task of the pool comes back with
run_task(s, file) ==
    IF s = "sun" THEN process_stock(file)
    ELSE outcome(analyze_logic_frame(file))

\* [r for r in results if r is not None], results being the returned values
RECURSIVE not_none(_)
not_none(rs) ==
    IF rs = <<>> THEN <<>>
    ELSE IF rs[1] = None THEN not_none(Tail(rs))
    ELSE <<rs[1]>> \o not_none(Tail(rs))

\* code point of a character
ord(ch) ==
    CASE ch = "%" -> 37
      [] ch = "." -> 46
      [] ch = "A" -> 65
      [] OTHER -> 47 + (CHOOSE i \in 1..10 : Digit[i] = ch)

RECURSIVE str_lt(_, _)
\* a < b for Python strings: by the first differing character, a proper
\* prefix being smaller
str_lt(a, b) ==
    IF b = <<>> THEN FALSE
    ELSE IF a = <<>> THEN TRUE
    ELSE IF ord(a[1]) # ord(b[1]) THEN ord(a[1]) < ord(b[1])
    ELSE str_lt(Tail(a), Tail(b))

\* the characters of a level
level_chars(level) ==
    IF level = "AAA" THEN <<"A", "A", "A">> ELSE IF level = "AA" THEN <<"A", "A">> ELSE <<"A">>

\* the row x sorts before the row y: by=['level', 'pct_chg'], both descending,
\* both columns holding strings
sorts_before(x, y) ==
    \/ str_lt(level_chars(y.level), level_chars(x.level))
    \/ (x.level = y.level /\ str_lt(y.pct_chg, x.pct_chg))

RECURSIVE insert_row(_, _)
insert_row(row, sorted) ==
    IF sorted = <<>> THEN <<row>>
    ELSE IF sorts_before(row, sorted[1]) THEN <<row>> \o sorted
    ELSE <<sorted[1]>> \o insert_row(row, Tail(sorted))

RECURSIVE sort_values(_)
\* duck_hunter.py line 132: a stable sort, rows of equal keys keep their order
sort_values(rows) ==
    IF rows = <<>> THEN <<>>
    ELSE insert_row(rows[Len(rows)], sort_values(SubSeq(rows, 1, Len(rows) - 1)))

\* a series of the first script: quiet bars, the volume peak five bars back,
\* three thin bars and today's bar t
SunRows(n, t) ==
    SunSeries(n, 10, 1, <<Bar(10, 11, 5), Bar(10, 10, 2), Bar(10, 11, 2), Bar(10, 10, 1)>>, t)

SunFile(name, malformed, rows) == [name |-> name, malformed |-> malformed, rows |-> rows]

CsvName(code) == code \o <<".", "c", "s", "v">>

\* the data directory of the first script: a match, a series whose volume
\* does not expand today, a short one, an unreadable one and a match on the
\* board that is left out
SunDir ==
    << SunFile(CsvName(<<"6", "0", "0", "0", "0", "1">>), FALSE, SunRows(15, Bar(10, 11, 9))),
       SunFile(CsvName(<<"6", "0", "0", "0", "0", "2">>), FALSE, SunRows(15, Bar(10, 11, 1))),
       SunFile(CsvName(<<"0", "0", "0", "0", "0", "3">>), FALSE, SunRows(14, Bar(10, 11, 9))),
       SunFile(CsvName(<<"6", "0", "0", "0", "0", "4">>), TRUE, <<>>),
       SunFile(CsvName(<<"3", "0", "0", "0", "0", "5">>), FALSE, SunRows(15, Bar(10, 11, 9))) >>

\* the data directory of the second script: level AAA with 9.5 percent, level
\* AAA with 10.0 percent, level AA with 3.0 percent, an unreadable file and
\* a flat 5-day average
DuckDir ==
    << RefParams,
       [RefParams EXCEPT !.code = <<"1", ".", "0">>, !.pct = 100],
       [RefParams EXCEPT !.code = <<"6", "0", "0", "0", "0", "0">>, !.head = 0, !.pct = 30],
       [RefParams EXCEPT !.code = <<"6", "0", "0", "0", "0", "7">>, !.malformed = TRUE],
       [RefParams EXCEPT !.code = <<"6", "0", "0", "0", "0", "8">>, !.q = 10] >>

DirOf(s) == IF s = "sun" THEN SunDir ELSE DuckDir

\* the listings of the directory: up to MaxFiles different files in any order
Listings(s) ==
    { l \in UNION { [1..k -> 1..Len(DirOf(s))] : k \in 1..MaxFiles } :
        \A i, j \in DOMAIN l : i # j => l[i] # l[j] }

BatchInit ==
    /\ script \in {"sun", "duck"}
    /\ \E l \in Listings(script) : files = [i \in DOMAIN l |-> DirOf(script)[l[i]]]
    /\ status = [i \in DOMAIN files |-> "queued"]
    /\ results = [i \in DOMAIN files |-> [raised |-> FALSE, ret |-> None]]
    /\ pc = "map"
    /\ ret = <<>>
    /\ df = <<>>
    /\ csv = <<>>
    /\ frame = DuckFrame(0, FALSE, FALSE, FALSE, FALSE)

\* a free worker takes a task that waits
StartTask(i) ==
    /\ pc = "map"
    /\ status[i] = "queued"
    /\ Cardinality({j \in DOMAIN status : status[j] = "running"}) < Workers
    /\ status' = [status EXCEPT ![i] = "running"]
    /\ UNCHANGED <<df, csv, pc, ret, frame, script, files, results>>

\* the worker runs process_stock or analyze_logic on its file and hands the
\* outcome back
FinishTask(i) ==
    /\ pc = "map"
    /\ status[i] = "running"
    /\ results' = [results EXCEPT ![i] = run_task(script, files[i])]
    /\ status' = [status EXCEPT ![i] = "done"]
    /\ UNCHANGED <<df, csv, pc, ret, frame, script, files>>

\* map returns once every task is done; an exception of a task is raised
\* again in main, which ends there.  Otherwise the first script keeps the
\* codes returned, the second sorts the records returned.
Collect ==
    /\ pc = "map"
    /\ \A i \in DOMAIN status : status[i] = "done"
    /\ IF \E i \in DOMAIN results : results[i].raised
       THEN pc' = "crashed" /\ ret' = ret
       ELSE /\ pc' = "done"
            /\ LET found == not_none([i \in DOMAIN results |-> results[i].ret]) IN
               ret' = IF script = "sun" THEN found ELSE sort_values(found)
    /\ UNCHANGED <<df, csv, frame, script, files, status, results>>

BatchNext ==
    \/ \E i \in DOMAIN files : StartTask(i)
    \/ \E i \in DOMAIN files : FinishTask(i)
    \/ Collect

SpecBatch == BatchInit /\ [][BatchNext]_vars

(***************************************************************************)
(* Properties of the batch                                                 *)
(***************************************************************************)

\* the matcher on the series of one file alone, no match where reading it
\* raises or the board is left out
AloneSun(file) ==
    IF ~ file.malformed /\ ~ startswith(file.name, <<"3", "0">>)
       /\ SunConditions(file.rows)
    THEN [code |-> SubSeq(file.name, 1, 6)] ELSE None

AloneDuck(file) == IF file.malformed THEN None ELSE analyze_frame(read_csv(file)).ret

Alone(file) == IF script = "sun" THEN AloneSun(file) ELSE AloneDuck(file)

\* what main holds at its end is right for every file
BatchCorrect ==
    /\ \A i \in DOMAIN files : results[i].ret = Alone(files[i])
    /\ Len(ret) = Cardinality({i \in DOMAIN files : Alone(files[i]) # None})
    /\ \A i \in DOMAIN files :
          Alone(files[i]) # None => \E k \in DOMAIN ret : ret[k] = Alone(files[i])

\* while map is under way a worker can start or finish a task, or map can
\* return
CanStep ==
    \/ \E i \in DOMAIN status :
          /\ status[i] = "queued"
          /\ Cardinality({j \in DOMAIN status : status[j] = "running"}) < Workers
    \/ \E i \in DOMAIN status : status[i] = "running"
    \/ \A i \in DOMAIN status : status[i] = "done"

\* C8: whatever the order of the workers, the batch never ends on an
\* exception of a task and never stops half way, and what main has collected
\* at its end is, for each file, the matcher's result on that file alone, no
\* match where its processing raised.
C8_IsolatedAndComplete ==
    /\ pc # "crashed"
    /\ pc = "map" => CanStep
    /\ pc = "done" => BatchCorrect

\* a completed batch with an unreadable file next to a matching one
C8_Witness ==
    /\ pc = "done"
    /\ \E i \in DOMAIN files : files[i].malformed
    /\ ret # <<>>

\* the percent change of the file a row of the table came from
PctOfRow(row) ==
    LET i == CHOOSE j \in DOMAIN files : code_of(files[j].code) = row.code IN files[i].pct

====
